---- MODULE Spec2Model ----
(***************************************************************************)
(* Model of shed/stats/traits/stat_types.rs: the three stat capability     *)
(* traits (Counter, Timeseries, Histogram), their Box forwarding impls     *)
(* (#[auto_impl(Box)]) and the thread-local adapters (CounterStatic,       *)
(* TimeseriesStatic, HistogramStatic for std::thread::LocalKey<T>).        *)
(*                                                                         *)
(* The repository holds no implementation of the traits.  The model runs   *)
(* the forwarding code against the reference fakes of the specification:   *)
(* a counter that keeps a running total, a timeseries that keeps a flat    *)
(* log of (sum, nsamples) pairs and a histogram that keeps a map from      *)
(* value to occurrence count.                                              *)
(***************************************************************************)
EXTENDS Integers, Sequences, FiniteSets, TLC

\* ------------------------------------------------------------------ bounds
\* Recording calls issued through the thread-local adapters in one behaviour.
MaxCalls == 3
\* Recording calls issued on the shared stat in one behaviour.
MaxSharedCalls == 3
\* Handles constructed in one behaviour.
MaxHandles == 1
\* Largest sample count for which add_repeated_value is compared with repeated add_value.
MaxRepeat == 3

Threads == {"A", "B"}

\* The thread-local slot under test, one per capability:
\* thread_local!(static COUNTER: T) with T: Counter, and so on.
Slots == {"COUNTER", "TIMESERIES", "HISTOGRAM"}

\* Sample values (i64) the two batching calls are compared on; the sample
\* counts (u32) are 0..MaxRepeat.
BatchValues == {-30, -7, -1, 0, 1, 5, 30}

\* Sample values (i64) and sample counts (u32) the callers pass.
Deltas == {-2, 3}
TsValues == {4, 10}
HistValues == {5, 7}
TsNSamples == {2}
HistNSamples == {3}

\* ------------------------------------------------------- reference fakes
\* One fake implementing the three traits; each trait touches its own field.
FakeNew == [total |-> 0, log |-> <<>>, buckets |-> <<>>]

\* buckets with n more occurrences of v (a value with no occurrence has no key).
AddCount(buckets, v, n) ==
    IF n = 0 THEN buckets
    ELSE IF v \in DOMAIN buckets THEN [buckets EXCEPT ![v] = @ + n]
    ELSE [x \in (DOMAIN buckets) \cup {v} |-> IF x = v THEN n ELSE buckets[x]]

\* Counter::increment_value(&self, value: i64)
Counter_increment_value(s, value) == [s EXCEPT !.total = @ + value]

\* Timeseries::add_value(&self, value: i64)
Timeseries_add_value(s, value) == [s EXCEPT !.log = Append(@, <<value, 1>>)]

\* Timeseries::add_value_aggregated(&self, value: i64, nsamples: u32)
\* "Value is the sum of values of the samples and nsamples is the number of samples."
Timeseries_add_value_aggregated(s, value, nsamples) ==
    [s EXCEPT !.log = Append(@, <<value, nsamples>>)]

\* Histogram::add_value(&self, value: i64)
Histogram_add_value(s, value) == [s EXCEPT !.buckets = AddCount(@, value, 1)]

\* A histogram that takes value for the sum of the nsamples samples.
Histogram_add_repeated_value_as_sum(s, value, nsamples) ==
    [s EXCEPT !.buckets =
        IF nsamples = 0 THEN @ ELSE AddCount(@, value \div nsamples, nsamples)]

\* Histogram::add_repeated_value(&self, value: i64, nsamples: u32)
\* "Value is the value of a single samples and nsamples is the number of samples."
Histogram_add_repeated_value(s, value, nsamples) ==
    [s EXCEPT !.buckets = AddCount(@, value, nsamples)]

\* --------------------------------------------------------------- calls
Call(op, value, nsamples) == [op |-> op, value |-> value, nsamples |-> nsamples]

CounterCalls == {Call("Counter::increment_value", d, 1) : d \in Deltas}
TimeseriesCalls ==
    {Call("Timeseries::add_value", v, 1) : v \in TsValues}
    \cup {Call("Timeseries::add_value_aggregated", v, n) : v \in TsValues, n \in TsNSamples}
HistogramCalls ==
    {Call("Histogram::add_value", v, 1) : v \in HistValues}
    \cup {Call("Histogram::add_repeated_value", v, n) : v \in HistValues, n \in HistNSamples}
AllCalls == CounterCalls \cup TimeseriesCalls \cup HistogramCalls

\* The calls the type of slot s admits (T: Counter, T: Timeseries, T: Histogram).
CallsOf(s) ==
    CASE s = "COUNTER" -> CounterCalls
      [] s = "TIMESERIES" -> TimeseriesCalls
      [] s = "HISTOGRAM" -> HistogramCalls

\* The raw capability method a call names, run on implementation state s.
RawCall(s, c) ==
    CASE c.op = "Counter::increment_value" -> Counter_increment_value(s, c.value)
      [] c.op = "Timeseries::add_value" -> Timeseries_add_value(s, c.value)
      [] c.op = "Timeseries::add_value_aggregated" ->
            Timeseries_add_value_aggregated(s, c.value, c.nsamples)
      [] c.op = "Histogram::add_value" -> Histogram_add_value(s, c.value)
      [] c.op = "Histogram::add_repeated_value" ->
            Histogram_add_repeated_value(s, c.value, c.nsamples)

\* ------------------------------------------------------------------ state
VARIABLES
    scenario,        \* the slot the threads record into, or "shared": one boxed stat
    reinitAfterDtor, \* platform: LocalKey::with after the destructor ran re-initializes
    thr,             \* thr[t]: "running", "exiting" (TLS destructors run) or "dead"
    tls,             \* tls[t]: thread t's instance of the slot
    rawTls,          \* the same slots, driven by resolving the slot and calling the raw method
    ncalls,          \* recording calls issued so far
    nhandles,        \* handles constructed so far (adapter references, boxes)
    last,            \* the adapter call made last
    implB,           \* the shared implementation behind the Box handle
    implD,           \* the same implementation called directly, in the same order
    implR,           \* the same implementation called directly, in an order of its own
    boxed,           \* implB has been wrapped in a Box handle
    pend,            \* pend[t]: t's call in flight on the boxed handle (and on implD)
    pendR,           \* pendR[t]: the same call in flight on implR
    issued,          \* sum of the deltas of the increment_value calls issued on the shared stat
    batch,           \* the (value, nsamples) pair of the two batching calls compared
    tsFake,          \* the timeseries fake that receives the pair
    histFake,        \* the histogram fake that receives the pair
    batchDone        \* which of the two fakes has received it

tlsVars == <<reinitAfterDtor, thr, tls, rawTls>>
sharedVars == <<implB, implD, implR, boxed, pend, pendR, issued>>
batchVars == <<batch, tsFake, histFake, batchDone>>
vars == <<scenario, tlsVars, sharedVars, batchVars, ncalls, nhandles, last>>

NoCall == Call("none", 0, 0)
\* An adapter call: the thread, the call, and how the adapter (outcome) and the
\* reference path (raw) ended.
Step(t, c, outcome, raw) ==
    [thread |-> t, call |-> c, outcome |-> outcome, raw |-> raw]
NoStep == Step("A", NoCall, "none", "none")

\* A thread's instance of a slot before its first access.
Uninit == [state |-> "uninit", inits |-> 0, val |-> FakeNew]

\* A slot that initializes a new instance on every access.
LocalKey_with_always_init(store, t, reinit) ==
    LET cell == store[t]
        fresh == [state |-> "alive", inits |-> cell.inits + 1, val |-> FakeNew]
    IN CASE cell.state \in {"uninit", "alive"} ->
                [panicked |-> FALSE, store |-> [store EXCEPT ![t] = fresh]]
         [] cell.state = "destroying" -> [panicked |-> TRUE, store |-> store]
         [] cell.state = "destroyed" ->
                IF reinit
                THEN [panicked |-> FALSE, store |-> [store EXCEPT ![t] = fresh]]
                ELSE [panicked |-> TRUE, store |-> store]

\* A slot that is one process-wide instance: what t's access does to t's
\* instance it does to every thread's.
LocalKey_with_process_wide(store, t, reinit) ==
    LET cell == store[t]
        fresh == [state |-> "alive", inits |-> cell.inits + 1, val |-> FakeNew]
        all(c) == [u \in DOMAIN store |-> c]
    IN CASE cell.state = "uninit" -> [panicked |-> FALSE, store |-> all(fresh)]
         [] cell.state = "alive" -> [panicked |-> FALSE, store |-> all(cell)]
         [] cell.state = "destroying" -> [panicked |-> TRUE, store |-> store]
         [] cell.state = "destroyed" ->
                IF reinit THEN [panicked |-> FALSE, store |-> all(fresh)]
                ELSE [panicked |-> TRUE, store |-> store]

\* ------------------------------------------------- std::thread::LocalKey
\* LocalKey::with as the adapters use it (self.with(|s| ...)), called by thread
\* t on the slot whose per-thread instances are store: it resolves t's own
\* instance, initializing it on t's first access; it panics while the
\* instance's destructor runs, and after the destructor has run it panics or,
\* where the platform cannot tell, initializes a fresh instance.
LocalKey_with(store, t, reinit) ==
    LET cell == store[t]
        fresh == [state |-> "alive", inits |-> cell.inits + 1, val |-> FakeNew]
    IN CASE cell.state = "uninit" ->
                [panicked |-> FALSE, store |-> [store EXCEPT ![t] = fresh]]
         [] cell.state = "alive" -> [panicked |-> FALSE, store |-> store]
         [] cell.state = "destroying" -> [panicked |-> TRUE, store |-> store]
         [] cell.state = "destroyed" ->
                IF reinit
                THEN [panicked |-> FALSE, store |-> [store EXCEPT ![t] = fresh]]
                ELSE [panicked |-> TRUE, store |-> store]

Returned(store) == [store |-> store, outcome |-> "returned"]
Panicked(store) == [store |-> store, outcome |-> "panic"]

\* impl<T: Counter> CounterStatic for LocalKey<T>
CounterStatic_increment_value(store, t, value, reinit) ==
    LET r == LocalKey_with(store, t, reinit) IN
    IF r.panicked THEN Panicked(r.store)
    ELSE Returned([r.store EXCEPT ![t].val = Counter_increment_value(@, value)])

\* impl<T: Timeseries> TimeseriesStatic for LocalKey<T>
TimeseriesStatic_add_value(store, t, value, reinit) ==
    LET r == LocalKey_with(store, t, reinit) IN
    IF r.panicked THEN Panicked(r.store)
    ELSE Returned([r.store EXCEPT ![t].val = Timeseries_add_value(@, value)])

\* An adapter that takes the aggregate for a repeated value: nsamples samples of value each.
TimeseriesStatic_add_value_aggregated_as_repeated(store, t, value, nsamples, reinit) ==
    LET r == LocalKey_with(store, t, reinit) IN
    IF r.panicked THEN Panicked(r.store)
    ELSE Returned([r.store EXCEPT
                     ![t].val = Timeseries_add_value_aggregated(@, value * nsamples, nsamples)])

\* An adapter that forwards the aggregate as one plain sample, dropping nsamples.
TimeseriesStatic_add_value_aggregated_as_add_value(store, t, value, nsamples, reinit) ==
    LET r == LocalKey_with(store, t, reinit) IN
    IF r.panicked THEN Panicked(r.store)
    ELSE Returned([r.store EXCEPT ![t].val = Timeseries_add_value(@, value)])

TimeseriesStatic_add_value_aggregated(store, t, value, nsamples, reinit) ==
    LET r == LocalKey_with(store, t, reinit) IN
    IF r.panicked THEN Panicked(r.store)
    ELSE Returned([r.store EXCEPT
                     ![t].val = Timeseries_add_value_aggregated(@, value, nsamples)])

\* impl<T: Histogram> HistogramStatic for LocalKey<T>
HistogramStatic_add_value(store, t, value, reinit) ==
    LET r == LocalKey_with(store, t, reinit) IN
    IF r.panicked THEN Panicked(r.store)
    ELSE Returned([r.store EXCEPT ![t].val = Histogram_add_value(@, value)])

\* An adapter that forwards the repeated value as one plain sample, dropping nsamples.
HistogramStatic_add_repeated_value_as_add_value(store, t, value, nsamples, reinit) ==
    LET r == LocalKey_with(store, t, reinit) IN
    IF r.panicked THEN Panicked(r.store)
    ELSE Returned([r.store EXCEPT ![t].val = Histogram_add_value(@, value)])

HistogramStatic_add_repeated_value(store, t, value, nsamples, reinit) ==
    LET r == LocalKey_with(store, t, reinit) IN
    IF r.panicked THEN Panicked(r.store)
    ELSE Returned([r.store EXCEPT
                     ![t].val = Histogram_add_repeated_value(@, value, nsamples)])

\* The adapter method a call names, called by thread t.
AdapterCall(store, t, c, reinit) ==
    CASE c.op = "Counter::increment_value" ->
            CounterStatic_increment_value(store, t, c.value, reinit)
      [] c.op = "Timeseries::add_value" ->
            TimeseriesStatic_add_value(store, t, c.value, reinit)
      [] c.op = "Timeseries::add_value_aggregated" ->
            TimeseriesStatic_add_value_aggregated(store, t, c.value, c.nsamples, reinit)
      [] c.op = "Histogram::add_value" ->
            HistogramStatic_add_value(store, t, c.value, reinit)
      [] c.op = "Histogram::add_repeated_value" ->
            HistogramStatic_add_repeated_value(store, t, c.value, c.nsamples, reinit)

\* The reference path: thread t resolves the slot, then calls the raw method
\* once on the resolved instance with the caller's arguments.
ResolveThenRaw(store, t, c, reinit) ==
    LET r == LocalKey_with(store, t, reinit) IN
    IF r.panicked THEN Panicked(r.store)
    ELSE Returned([r.store EXCEPT ![t].val = RawCall(@, c)])

\* Taking the handle initializes the thread's instance eagerly.
LocalKey_handle_eager(cell) ==
    IF cell.state = "uninit"
    THEN [state |-> "alive", inits |-> cell.inits + 1, val |-> FakeNew]
    ELSE cell

\* Obtaining the adapter handle of a slot (&'static LocalKey<T> as a
\* CounterStatic / TimeseriesStatic / HistogramStatic): no access to the slot.
LocalKey_handle(cell) == cell

\* ------------------------------------------------- #[auto_impl(Box)]
\* Wrapping an implementation in Box<dyn Counter + Send + Sync> (BoxCounter),
\* BoxTimeseries or BoxHistogram moves it to the heap.
Box_new(s) == s

\* A Box impl that forwards the increment twice.
BoxCounter_increment_value_twice(s, value) ==
    Counter_increment_value(Counter_increment_value(s, value), value)

\* impl<T: Counter> Counter for Box<T>
BoxCounter_increment_value(s, value) == Counter_increment_value(s, value)

\* impl<T: Timeseries> Timeseries for Box<T>
BoxTimeseries_add_value(s, value) == Timeseries_add_value(s, value)

BoxTimeseries_add_value_aggregated(s, value, nsamples) ==
    Timeseries_add_value_aggregated(s, value, nsamples)

\* impl<T: Histogram> Histogram for Box<T>
BoxHistogram_add_value(s, value) == Histogram_add_value(s, value)

\* A Box impl that forwards the repeated value as one plain sample, dropping nsamples.
BoxHistogram_add_repeated_value_as_add_value(s, value, nsamples) ==
    Histogram_add_value(s, value)

BoxHistogram_add_repeated_value(s, value, nsamples) ==
    Histogram_add_repeated_value(s, value, nsamples)

\* The Box method a call names, run on the wrapped implementation's state.
BoxCall(s, c) ==
    CASE c.op = "Counter::increment_value" -> BoxCounter_increment_value(s, c.value)
      [] c.op = "Timeseries::add_value" -> BoxTimeseries_add_value(s, c.value)
      [] c.op = "Timeseries::add_value_aggregated" ->
            BoxTimeseries_add_value_aggregated(s, c.value, c.nsamples)
      [] c.op = "Histogram::add_value" -> BoxHistogram_add_value(s, c.value)
      [] c.op = "Histogram::add_repeated_value" ->
            BoxHistogram_add_repeated_value(s, c.value, c.nsamples)

\* ------------------------------------------------------------------- Init
Init ==
    /\ scenario \in Slots \cup {"shared"}
    /\ reinitAfterDtor \in (IF scenario = "shared" THEN {FALSE} ELSE BOOLEAN)
    /\ thr = [t \in Threads |-> "running"]
    /\ tls = [t \in Threads |-> Uninit]
    /\ rawTls = [t \in Threads |-> Uninit]
    /\ ncalls = 0
    /\ nhandles = 0
    /\ last = NoStep
    /\ implB = FakeNew
    /\ implD = FakeNew
    /\ implR = FakeNew
    /\ boxed = FALSE
    /\ pend = [t \in Threads |-> NoCall]
    /\ pendR = [t \in Threads |-> NoCall]
    /\ issued = 0
    /\ batch = [value |-> 0, nsamples |-> 0]
    /\ tsFake = FakeNew
    /\ histFake = FakeNew
    /\ batchDone = {}

\* ------------------------------------------------ thread-local scenario
\* Thread t calls an adapter method on the slot, while it runs or from another
\* thread-local's destructor while it terminates; rawTls takes the reference path.
TlsCall(t, c) ==
    /\ scenario \in Slots
    /\ c \in CallsOf(scenario)
    /\ thr[t] \in {"running", "exiting"}
    /\ ncalls < MaxCalls
    /\ LET a == AdapterCall(tls, t, c, reinitAfterDtor)
           r == ResolveThenRaw(rawTls, t, c, reinitAfterDtor)
       IN /\ tls' = a.store
          /\ rawTls' = r.store
          /\ last' = Step(t, c, a.outcome, r.outcome)
    /\ ncalls' = ncalls + 1
    /\ UNCHANGED <<batchVars, scenario, reinitAfterDtor, thr, nhandles, sharedVars>>

\* Thread t takes the adapter handle of the slot without calling a method.
TakeHandle(t) ==
    /\ scenario \in Slots
    /\ thr[t] = "running"
    /\ nhandles < MaxHandles
    /\ tls' = [tls EXCEPT ![t] = LocalKey_handle(@)]
    /\ nhandles' = nhandles + 1
    /\ UNCHANGED <<batchVars, scenario, reinitAfterDtor, thr, rawTls, ncalls, last, sharedVars>>

\* Thread t terminates: its thread-local destructors start to run.
ThreadExit(t) ==
    /\ scenario \in Slots
    /\ thr[t] = "running"
    /\ thr' = [thr EXCEPT ![t] = "exiting"]
    /\ UNCHANGED <<batchVars, scenario, reinitAfterDtor, tls, rawTls, ncalls, nhandles, last, sharedVars>>

\* The destructor of t's instance of the slot starts.
DtorBegin(t) ==
    /\ scenario \in Slots
    /\ thr[t] = "exiting"
    /\ tls[t].state = "alive"
    /\ tls' = [tls EXCEPT ![t].state = "destroying"]
    /\ rawTls' = [rawTls EXCEPT ![t].state = "destroying"]
    /\ UNCHANGED <<batchVars, scenario, reinitAfterDtor, thr, ncalls, nhandles, last, sharedVars>>

\* The destructor of t's instance of the slot has run: the instance is gone.
DtorEnd(t) ==
    /\ scenario \in Slots
    /\ thr[t] = "exiting"
    /\ tls[t].state = "destroying"
    /\ tls' = [tls EXCEPT ![t] = [@ EXCEPT !.state = "destroyed", !.val = FakeNew]]
    /\ rawTls' = [rawTls EXCEPT ![t] = [@ EXCEPT !.state = "destroyed", !.val = FakeNew]]
    /\ UNCHANGED <<batchVars, scenario, reinitAfterDtor, thr, ncalls, nhandles, last, sharedVars>>

\* Every destructor of t has run: the thread is gone.
ThreadDone(t) ==
    /\ scenario \in Slots
    /\ thr[t] = "exiting"
    /\ tls[t].state \in {"uninit", "destroyed"}
    /\ thr' = [thr EXCEPT ![t] = "dead"]
    /\ UNCHANGED <<batchVars, scenario, reinitAfterDtor, tls, rawTls, ncalls, nhandles, last, sharedVars>>

\* ------------------------------------------------------ shared scenario
\* Before it is boxed, the owner calls the implementation directly.
SetupCall(c) ==
    /\ scenario = "shared"
    /\ ~boxed
    /\ ncalls < MaxSharedCalls
    /\ implB' = RawCall(implB, c)
    /\ implD' = RawCall(implD, c)
    /\ implR' = RawCall(implR, c)
    /\ issued' = issued + (IF c \in CounterCalls THEN c.value ELSE 0)
    /\ ncalls' = ncalls + 1
    /\ UNCHANGED <<batchVars, scenario, tlsVars, nhandles, last, boxed, pend, pendR>>

\* The implementation is wrapped in its ownership-erased handle, to be shared.
BoxNew ==
    /\ scenario = "shared"
    /\ ~boxed
    /\ implB' = Box_new(implB)
    /\ boxed' = TRUE
    /\ nhandles' = nhandles + 1
    /\ UNCHANGED <<batchVars, scenario, tlsVars, ncalls, last, implD, implR, pend, pendR, issued>>

\* Thread t issues call c on the shared stat.
Issue(t, c) ==
    /\ scenario = "shared"
    /\ boxed
    /\ ncalls < MaxSharedCalls
    /\ pend[t] = NoCall /\ pendR[t] = NoCall
    /\ pend' = [pend EXCEPT ![t] = c]
    /\ pendR' = [pendR EXCEPT ![t] = c]
    /\ issued' = issued + (IF c \in CounterCalls THEN c.value ELSE 0)
    /\ ncalls' = ncalls + 1
    /\ UNCHANGED <<batchVars, scenario, tlsVars, nhandles, last, implB, implD, implR, boxed>>

\* t's call takes effect (the fake's update is atomic): through the Box on
\* implB, and at the same point of the interleaving directly on implD.
Apply(t) ==
    /\ scenario = "shared"
    /\ pend[t] # NoCall
    /\ implB' = BoxCall(implB, pend[t])
    /\ implD' = RawCall(implD, pend[t])
    /\ pend' = [pend EXCEPT ![t] = NoCall]
    /\ UNCHANGED <<batchVars, scenario, tlsVars, ncalls, nhandles, last, implR, boxed, pendR, issued>>

\* t's call takes effect directly on implR, under an interleaving of its own.
ApplyR(t) ==
    /\ scenario = "shared"
    /\ pendR[t] # NoCall
    /\ implR' = RawCall(implR, pendR[t])
    /\ pendR' = [pendR EXCEPT ![t] = NoCall]
    /\ UNCHANGED <<batchVars, scenario, tlsVars, ncalls, nhandles, last, implB, implD, boxed, pend, issued>>

Next ==
    \/ \E t \in Threads : \E c \in AllCalls : TlsCall(t, c)
    \/ \E t \in Threads : TakeHandle(t)
    \/ \E t \in Threads : ThreadExit(t)
    \/ \E t \in Threads : DtorBegin(t)
    \/ \E t \in Threads : DtorEnd(t)
    \/ \E t \in Threads : ThreadDone(t)
    \/ \E c \in AllCalls : SetupCall(c)
    \/ BoxNew
    \/ \E t \in Threads : \E c \in AllCalls : Issue(t, c)
    \/ \E t \in Threads : Apply(t)
    \/ \E t \in Threads : ApplyR(t)

Spec == Init /\ [][Next]_vars

\* ------------------------------------------- the two batching calls compared
\* One (value, nsamples) pair is given to Timeseries::add_value_aggregated on a
\* fresh timeseries fake and to Histogram::add_repeated_value on a fresh
\* histogram fake.
InitBatch ==
    /\ scenario = "batch"
    /\ reinitAfterDtor = FALSE
    /\ thr = [t \in Threads |-> "running"]
    /\ tls = [t \in Threads |-> Uninit]
    /\ rawTls = [t \in Threads |-> Uninit]
    /\ ncalls = 0
    /\ nhandles = 0
    /\ last = NoStep
    /\ implB = FakeNew
    /\ implD = FakeNew
    /\ implR = FakeNew
    /\ boxed = FALSE
    /\ pend = [t \in Threads |-> NoCall]
    /\ pendR = [t \in Threads |-> NoCall]
    /\ issued = 0
    /\ batch \in [value : BatchValues, nsamples : 0..MaxRepeat]
    /\ tsFake = FakeNew
    /\ histFake = FakeNew
    /\ batchDone = {}

BatchTimeseries ==
    /\ "timeseries" \notin batchDone
    /\ tsFake' = Timeseries_add_value_aggregated(tsFake, batch.value, batch.nsamples)
    /\ batchDone' = batchDone \cup {"timeseries"}
    /\ UNCHANGED <<scenario, tlsVars, sharedVars, ncalls, nhandles, last, batch, histFake>>

BatchHistogram ==
    /\ "histogram" \notin batchDone
    /\ histFake' = Histogram_add_repeated_value(histFake, batch.value, batch.nsamples)
    /\ batchDone' = batchDone \cup {"histogram"}
    /\ UNCHANGED <<scenario, tlsVars, sharedVars, ncalls, nhandles, last, batch, tsFake>>

NextBatch == BatchTimeseries \/ BatchHistogram

SpecBatch == InitBatch /\ [][NextBatch]_vars

\* The samples a timeseries log stands for: each entry is nsamples samples
\* whose values sum to the entry's sum.
RECURSIVE TimeseriesSamples(_)
TimeseriesSamples(log) ==
    IF log = <<>> THEN [count |-> 0, sum |-> 0]
    ELSE LET rest == TimeseriesSamples(Tail(log))
         IN [count |-> Head(log)[2] + rest.count, sum |-> Head(log)[1] + rest.sum]

\* The samples a bucket map stands for: buckets[v] samples equal to v each.
RECURSIVE HistogramSamplesOver(_, _)
HistogramSamplesOver(buckets, keys) ==
    IF keys = {} THEN [count |-> 0, sum |-> 0]
    ELSE LET v == CHOOSE x \in keys : TRUE
             rest == HistogramSamplesOver(buckets, keys \ {v})
         IN [count |-> buckets[v] + rest.count, sum |-> v * buckets[v] + rest.sum]

HistogramSamples(buckets) == HistogramSamplesOver(buckets, DOMAIN buckets)

\* ================================================================ claims
Idle == \A t \in Threads : pend[t] = NoCall /\ pendR[t] = NoCall

DeltaOf(c) == IF c \in CounterCalls THEN c.value ELSE 0

\* Sum of the deltas of the increment_value calls in flight on the boxed handle.
PendingDeltas ==
    LET sum[S \in SUBSET Threads] ==
            IF S = {} THEN 0
            ELSE LET t == CHOOSE x \in S : TRUE IN DeltaOf(pend[t]) + sum[S \ {t}]
    IN sum[Threads]

\* C1: on a shared counter fake incremented by several threads (deltas of
\* both signs, in any interleaving) no increment is lost or applied twice: at
\* every moment the total is the sum of the deltas issued minus those still in
\* flight, so once every call has returned the total is d1 + ... + dn.
C1_TotalIsSumOfDeltas ==
    scenario = "shared" =>
        /\ implB.total + PendingDeltas = issued
        /\ (Idle => implB.total = issued)

\* Both threads have incremented the shared boxed counter, one increment has
\* taken effect and the other is still in flight.
C1_Witness ==
    /\ scenario = "shared" /\ boxed
    /\ pend["A"] = Call("Counter::increment_value", -2, 1)
    /\ pend["B"] = NoCall
    /\ implB.total = 3

\* A step is an adapter call by thread t.
CallBy(t) == scenario \in Slots /\ ncalls' = ncalls + 1 /\ last'.thread = t

\* C2: an adapter call made by thread A changes only A's instance of the
\* slot: every other thread's instance is unchanged by it.
C2_ThreadLocalIsolation ==
    [][\A a \in Threads : CallBy(a) => \A b \in Threads \ {a} : tls'[b] = tls[b]]_vars

\* A's call has just returned while B's instance holds samples of its own.
C2_Witness ==
    /\ scenario = "COUNTER"
    /\ last.thread = "A" /\ last.outcome = "returned"
    /\ tls["A"].state = "alive" /\ tls["A"].val.total = 3
    /\ tls["B"].state = "alive" /\ tls["B"].val.total = -2

\* C3: an adapter call has the effect of resolving the calling thread's
\* instance and calling the same-named raw method on it once with the same
\* arguments: the slots driven by the adapters and the slots driven by the
\* reference path are in the same state after every sequence of calls, and
\* each call ends the same way on both.
C3_AdapterEquivalence ==
    scenario \in Slots => tls = rawTls /\ last.outcome = last.raw

\* An aggregated sample went through the adapter after an earlier call.
C3_Witness ==
    /\ scenario = "TIMESERIES"
    /\ last.call = Call("Timeseries::add_value_aggregated", 10, 2)
    /\ last.outcome = "returned"
    /\ Len(tls[last.thread].val.log) = 2

\* Occurrences of x recorded in a bucket map.
Count(buckets, x) == IF x \in DOMAIN buckets THEN buckets[x] ELSE 0

\* n consecutive Histogram::add_value(v) calls.
RECURSIVE RepeatAddValue(_, _, _)
RepeatAddValue(s, v, n) ==
    IF n = 0 THEN s ELSE RepeatAddValue(Histogram_add_value(s, v), v, n - 1)

\* A step is an adapter call by thread t that returned.
ReturnedCallBy(t) == CallBy(t) /\ last'.outcome = "returned"

\* The instance a returned call of t ran on, before the call: t's instance,
\* or a fresh one when the call initialized the slot.
InstanceBefore(store, t) == IF store[t].state = "alive" THEN store[t].val ELSE FakeNew

\* What a histogram call adds to the bucket of its value.
Occurrences(c) == IF c.op = "Histogram::add_value" THEN 1 ELSE c.nsamples

\* C5: on the histogram fake add_value(v) adds 1 to the count of v and
\* add_repeated_value(v, n) adds n, every other bucket unchanged, through the
\* adapter as on the direct path; add_repeated_value(v, n) is n consecutive
\* add_value(v); add_value(5) then add_repeated_value(7, 3) on a fresh
\* instance gives {5: 1, 7: 3}.
C5_HistogramBuckets ==
    /\ [](scenario = "HISTOGRAM" =>
            \A t \in Threads : \A v \in HistValues : \A n \in 0..MaxRepeat :
                Histogram_add_repeated_value(tls[t].val, v, n)
                    = RepeatAddValue(tls[t].val, v, n))
    /\ [][\A t \in Threads : (ReturnedCallBy(t) /\ scenario = "HISTOGRAM") =>
            LET c == last'.call
                before == InstanceBefore(tls, t).buckets
                after == tls'[t].val.buckets
                direct == rawTls'[t].val.buckets
            IN /\ \A x \in HistValues \cup DOMAIN before \cup DOMAIN after :
                      Count(after, x)
                          = Count(before, x) + (IF x = c.value THEN Occurrences(c) ELSE 0)
               /\ direct = after
               /\ (before = <<>> /\ c = Call("Histogram::add_value", 5, 1))
                      => after = (5 :> 1)
               /\ (before = (5 :> 1) /\ c = Call("Histogram::add_repeated_value", 7, 3))
                      => after = (5 :> 1 @@ 7 :> 3)]_vars

\* add_value(5) then add_repeated_value(7, 3) went through the adapter.
C5_Witness ==
    /\ scenario = "HISTOGRAM"
    /\ last.call = Call("Histogram::add_repeated_value", 7, 3)
    /\ last.outcome = "returned"
    /\ tls[last.thread].val.buckets = (5 :> 1 @@ 7 :> 3)
    /\ ncalls = 2

\* The log entry a timeseries call records.
Entry(c) == IF c.op = "Timeseries::add_value" THEN <<c.value, 1>> ELSE <<c.value, c.nsamples>>

\* C6: on the timeseries fake add_value(v) appends (v, 1) and
\* add_value_aggregated(v, n) appends (v, n), the value neither divided,
\* multiplied nor split, after the entries the thread recorded before, through
\* the adapter as on the direct path; add_value(4) then
\* add_value_aggregated(10, 2) on a fresh instance gives [(4,1), (10,2)].
C6_TimeseriesLog ==
    [][\A t \in Threads : (ReturnedCallBy(t) /\ scenario = "TIMESERIES") =>
            LET c == last'.call
                before == InstanceBefore(tls, t).log
                after == tls'[t].val.log
                direct == rawTls'[t].val.log
            IN /\ after = Append(before, Entry(c))
               /\ direct = after
               /\ (before = <<<<4, 1>>>> /\ c = Call("Timeseries::add_value_aggregated", 10, 2))
                      => after = <<<<4, 1>>, <<10, 2>>>>]_vars

\* add_value(4) then add_value_aggregated(10, 2) went through the adapter.
C6_Witness ==
    /\ scenario = "TIMESERIES"
    /\ last.call = Call("Timeseries::add_value_aggregated", 10, 2)
    /\ last.outcome = "returned"
    /\ tls[last.thread].val.log = <<<<4, 1>>, <<10, 2>>>>
    /\ ncalls = 2

\* C7: every recording call returns normally to its caller, whatever the
\* state of the calling thread's slot (not yet initialized, initialized, being
\* destroyed or destroyed during thread termination).
C7_EveryCallReturns == last.outcome # "panic"

\* C8: constructing a handle (taking a slot's adapter handle, wrapping an
\* implementation in a Box) without calling a recording method leaves every
\* stat instance as it was and initializes no thread's slot.
C8_ConstructionIsNoOp ==
    [][nhandles' = nhandles + 1 =>
          /\ tls' = tls /\ rawTls' = rawTls
          /\ implB' = implB /\ implD' = implD /\ implR' = implR]_vars

\* A handle was taken while one thread's slot holds a sample and the other's
\* is still uninitialized.
C8_Witness ==
    /\ scenario = "COUNTER"
    /\ nhandles = 1
    /\ tls["A"].state = "uninit"
    /\ tls["B"].state = "alive" /\ tls["B"].val.total = 3

\* The first adapter call of t: it initializes t's instance once, and the
\* forwarded method records its sample on the fresh instance.
FirstCall(t) ==
    (CallBy(t) /\ tls[t].state = "uninit") =>
        /\ last'.outcome = "returned"
        /\ tls'[t] = [state |-> "alive", inits |-> 1, val |-> RawCall(FakeNew, last'.call)]

\* A call of t ran on t's instance: the same instance, not initialized again,
\* with the call's sample after those recorded before.
Reuses(t) == tls'[t] = [tls[t] EXCEPT !.val = RawCall(@, last'.call)]

\* The slot leaves "uninit" only by a call of t itself, and the instance is
\* destroyed only while t terminates.
LazyAndDestroyedAtExit(t) ==
    /\ (tls[t].state = "uninit" /\ tls'[t].state # "uninit") => CallBy(t)
    /\ (tls[t].state = "uninit") => (tls[t].inits = 0 /\ tls[t].val = FakeNew)
    /\ (tls[t].state = "alive" /\ tls'[t].state # "alive") => thr[t] = "exiting"
    /\ (tls[t].state = "alive" /\ tls'[t].state = "alive") => tls'[t].inits = tls[t].inits

SameEntries(l1, l2) ==
    /\ Len(l1) = Len(l2)
    /\ \A i \in DOMAIN l1 :
          Cardinality({j \in DOMAIN l1 : l1[j] = l1[i]})
              = Cardinality({j \in DOMAIN l2 : l2[j] = l1[i]})

\* C10 as stated: once every call has returned, the implementation behind the
\* shared Box is in the state of the unboxed implementation that received the
\* same multiset of calls.
C10_SameMultisetSameState ==
    (scenario = "shared" /\ Idle) => implB = implR

\* C10 as amended: the implementation behind the Box is at every moment in the
\* state of the unboxed implementation that received the same calls in the
\* same order; for the same multiset of calls in another order the counter
\* total, the bucket map and the multiset of log entries are the same.
C10_BoxTransparent ==
    scenario = "shared" =>
        /\ implB = implD
        /\ Idle => /\ implB.total = implR.total
                   /\ implB.buckets = implR.buckets
                   /\ SameEntries(implB.log, implR.log)

\* Two threads' timeseries calls took effect in one order behind the Box and
\* in the other order on the unboxed implementation.
C10_Witness ==
    /\ scenario = "shared" /\ boxed /\ Idle
    /\ implB.log = <<<<4, 1>>, <<10, 2>>>>
    /\ implR.log = <<<<10, 2>>, <<4, 1>>>>

\* C4: Timeseries::add_value_aggregated(v, n) records n samples that sum to v,
\* Histogram::add_repeated_value(v, n) records n samples equal to v each (sum
\* n * v); the two records differ whenever n # 1 and v # 0, and for v = 30,
\* n = 3 they are 3 samples summing to 30 against exactly 30, 30, 30.
C4_SumAgainstRepeatedValue ==
    LET v == batch.value
        n == batch.nsamples
        ts == TimeseriesSamples(tsFake.log)
        hist == HistogramSamples(histFake.buckets)
    IN /\ "timeseries" \in batchDone => ts = [count |-> n, sum |-> v]
       /\ "histogram" \in batchDone =>
              /\ hist = [count |-> n, sum |-> n * v]
              /\ \A x \in BatchValues : Count(histFake.buckets, x) = (IF x = v THEN n ELSE 0)
       /\ (batchDone = {"timeseries", "histogram"} /\ n # 1 /\ v # 0) => ts # hist
       /\ (batchDone = {"timeseries", "histogram"} /\ v = 30 /\ n = 3) =>
              /\ tsFake.log = <<<<30, 3>>>>
              /\ histFake.buckets = (30 :> 3)

\* Both fakes have received value 30 with nsamples 3.
C4_Witness ==
    /\ batchDone = {"timeseries", "histogram"}
    /\ batch = [value |-> 30, nsamples |-> 3]
    /\ TimeseriesSamples(tsFake.log).sum = 30
    /\ HistogramSamples(histFake.buckets).sum = 90

====
